---- MODULE Spec2Model ----
(***************************************************************************)
(* A model of the primal heuristic engine of PaPILO's fix branch:          *)
(*   - FixAndPropagate   (src/src/fix/FixAndPropagate.hpp)                  *)
(*   - Heuristic         (src/src/fix/Heuristic.hpp)                        *)
(*   - VolumeAlgorithm   (src/src/fix/VolumeAlgorithm.hpp)                  *)
(* Real numbers are kept on a grid of 1/Den; tolerances of the numeric     *)
(* kernel (1e-9) are finer than the grid, so isEq, isLT, ... are the exact *)
(* comparisons on grid values.                                             *)
(***************************************************************************)
EXTENDS Integers, Sequences, FiniteSets, TLC

VARIABLES
  \* ---- FixAndPropagate::fix_and_propagate, one call ----
  problem_id,             \* Problem<REAL>& problem: its index in ProblemPool
  cont_solution,          \* const Vec<REAL>& cont_solution
  perform_backtracking,   \* bool perform_backtracking
  stop_at_infeasibility,  \* bool stop_at_infeasibility
  probing_view,           \* ProbingView<REAL>& probing_view
  result,                 \* Vec<REAL>& result
  successful_backtracks,  \* int& successful_backtracks
  fp_pc,                  \* position inside fix_and_propagate
  fp_ret,                 \* the returned bool ("none" before the return)
  \* ---- Heuristic: members, and one call of perform_fix_and_propagate ----
  tbb,                    \* the build: TRUE iff PAPILO_TBB is defined
  int_solutions,          \* Vec<Vec<REAL>> int_solutions, indexed by strategy
  obj_value,              \* Vec<REAL> obj_value
  infeasible_arr,         \* Vec<bool> infeasible_arr (bits of one word)
  best_obj_val,           \* REAL& best_obj_val of the caller
  current_best_solution,  \* Vec<REAL>& current_best_solution of the caller
  incumbent_in,           \* the incumbent as the caller passed it
  h_pc,                   \* position inside perform_fix_and_propagate
  tasks,                  \* the body invocations of the running parallel_for
  writers,                \* storage location -> tasks that wrote it in this region
  ran,                    \* strategies whose fix_and_propagate ran in this call
  feasible_reported,      \* some dive of this call returned false
  dive,                   \* strategy -> the outcomes its dive can report
  first_result,           \* the selection of the first of two runs
  \* ---- VolumeAlgorithm: members, and one call of volume_algorithm ----
  pi,                     \* const Vec<REAL>& pi
  pi_t,                   \* Vec<REAL> pi_t
  pi_bar,                 \* Vec<REAL> pi_bar
  solved_with,            \* the multipliers of the last create_problem_6_and_solve_it
  x_t,                    \* Vec<REAL> x_t
  z_bar,                  \* REAL z_bar
  improvement_indicator,  \* bool improvement_indicator
  counter,                \* int counter
  f,                      \* REAL f (member), in units of 1/FUnit
  weak_improvement_iter_counter,
  non_improvement_iter_counter,
  change_f,               \* int change_f of the last update_f
  alpha,                  \* REAL alpha (member), in units of 1/FUnit
  alpha_max,              \* REAL alpha_max (member), in units of 1/FUnit
  z_bar_old,              \* REAL z_bar_old
  v_pc,                   \* position inside volume_algorithm
  box_upper_bound,        \* REAL box_upper_bound (grid units)
  num_int_vars,           \* const int num_int_vars
  upper_bound,            \* REAL upper_bound, in hundredths of a grid unit
  finite_upper_bound,     \* bool finite_upper_bound
  fixed_int_vars_count,   \* Vec<int> fixed_int_vars_count
  \* ---- FixAndPropagate::find_initial_solution, one call ----
  mode,                   \* int mode
  \* ---- StartMipComp: one run of main ----
  argv,                   \* the command line, by what parseOptions makes of it
  instance_file,          \* what MpsParser::loadProblem finds in the instance file
  prob,                   \* boost::optional<Problem<double>> prob
  reformulated,           \* Problem<double> reformulated
  min_value,              \* StableSum<double> min_value, in grid units
  m_pc,                   \* position inside main
  exit_code               \* the value main returns ("none" before the return)

fpVars == <<problem_id, cont_solution, perform_backtracking,
            stop_at_infeasibility, probing_view, result,
            successful_backtracks, fp_pc, fp_ret>>

hVars == <<tbb, int_solutions, obj_value, infeasible_arr, best_obj_val,
           current_best_solution, incumbent_in, h_pc, tasks, writers, ran,
           feasible_reported, dive, first_result>>

vVars == <<pi, pi_t, pi_bar, solved_with, x_t, z_bar, improvement_indicator,
           counter, f, weak_improvement_iter_counter,
           non_improvement_iter_counter, change_f, alpha, alpha_max,
           z_bar_old, v_pc, box_upper_bound, num_int_vars, upper_bound,
           finite_upper_bound, fixed_int_vars_count>>

mVars == <<mode, argv, instance_file, prob, reformulated, min_value, m_pc,
          exit_code>>

vars == <<fpVars, hVars, vVars, mVars>>

(***************************************************************************)
(* Numeric kernel on the grid                                              *)
(***************************************************************************)
\* grid resolution: the real number 1 is Den grid units
Den == 2

U(k) == k * Den

FloorDiv(x, d) == IF d > 0 THEN x \div d ELSE (-x) \div (-d)
CeilDiv(x, d) == -FloorDiv(-x, d)

feasFloor(v) == (v \div Den) * Den
feasCeil(v) == -feasFloor(-v)
\* std::round: halves away from zero
round(v) == IF v >= 0 THEN ((2 * v + Den) \div (2 * Den)) * Den
            ELSE -(((2 * (-v) + Den) \div (2 * Den)) * Den)
isIntegral(v) == v % Den = 0

RECURSIVE SumSeq(_)
SumSeq(s) == IF s = <<>> THEN 0 ELSE Head(s) + SumSeq(Tail(s))

\* StableSum over the products a[j] * b[j]
Dot(a, b) == SumSeq([j \in 1..Len(a) |-> a[j] * b[j]])

(***************************************************************************)
(* Problem model.  A column has bounds lb, ub (grid units) and the flag    *)
(* kIntegral; a row has integer coefficients a, sides lhs, rhs (grid       *)
(* units) and the flags kLhsInf, kRhsInf, kRedundant.                      *)
(***************************************************************************)
Row(a, lhsInf, lhs, rhsInf, rhs, redundant) ==
  [a |-> a, lhsInf |-> lhsInf, lhs |-> lhs, rhsInf |-> rhsInf, rhs |-> rhs,
   redundant |-> redundant]
GeRow(a, b) == Row(a, FALSE, U(b), TRUE, 0, FALSE)
LeRow(a, b) == Row(a, TRUE, 0, FALSE, U(b), FALSE)
EqRow(a, b) == Row(a, FALSE, U(b), FALSE, U(b), FALSE)

\* x, y, z binary: x + 2y >= 1, x + 2z >= 1, x + y + z <= 1
\* (no bound is implied by a single row; (1,0,0) is feasible)
ProblemFlip ==
  [obj |-> <<1, 1, 1>>, integral |-> <<TRUE, TRUE, TRUE>>,
   lb |-> <<U(0), U(0), U(0)>>, ub |-> <<U(1), U(1), U(1)>>,
   rows |-> << GeRow(<<1, 2, 0>>, 1), GeRow(<<1, 0, 2>>, 1),
               LeRow(<<1, 1, 1>>, 1) >>]

\* the binary problem of the conflict analysis test:
\* x1 + x3 = 1, x1 + x2 + x3 = 2, x2 + x3 + x4 + x5 = 3, x4 + x5 = 1
ProblemConflict ==
  [obj |-> <<1, 1, 1, 1, 1>>, integral |-> <<TRUE, TRUE, TRUE, TRUE, TRUE>>,
   lb |-> <<U(0), U(0), U(0), U(0), U(0)>>,
   ub |-> <<U(1), U(1), U(1), U(1), U(1)>>,
   rows |-> << EqRow(<<1, 0, 1, 0, 0>>, 1), EqRow(<<1, 1, 1, 0, 0>>, 2),
               EqRow(<<0, 1, 1, 1, 1>>, 3), EqRow(<<0, 0, 0, 1, 1>>, 1) >>]

\* minimize x + 2y, x + 2y <= 2, y <= 3, x in [-1,1], y in [0,1], integral
ProblemSingleRow ==
  [obj |-> <<1, 2>>, integral |-> <<TRUE, TRUE>>,
   lb |-> <<U(-1), U(0)>>, ub |-> <<U(1), U(1)>>,
   rows |-> << LeRow(<<1, 2>>, 2), LeRow(<<0, 1>>, 3) >>]

\* x binary, g integer in [0,2], w continuous in [0,2]:
\* x + g + w = 3, w - x >= 0
ProblemMixed ==
  [obj |-> <<1, -1, 1>>, integral |-> <<TRUE, TRUE, FALSE>>,
   lb |-> <<U(0), U(0), U(0)>>, ub |-> <<U(1), U(2), U(2)>>,
   rows |-> << EqRow(<<1, 1, 1>>, 3), GeRow(<<-1, 0, 1>>, 0) >>]

\* x, y binary: x + y >= 1 and a row flagged redundant, x + y <= 0
ProblemRedundant ==
  [obj |-> <<1, 1>>, integral |-> <<TRUE, TRUE>>,
   lb |-> <<U(0), U(0)>>, ub |-> <<U(1), U(1)>>,
   rows |-> << GeRow(<<1, 1>>, 1),
               Row(<<1, 1>>, TRUE, 0, FALSE, U(0), TRUE) >>]

\* x1, x2 binary: x1 + x2 = 1, minimize -x1 - 2 x2
ProblemPair ==
  [obj |-> <<-1, -2>>, integral |-> <<TRUE, TRUE>>,
   lb |-> <<U(0), U(0)>>, ub |-> <<U(1), U(1)>>,
   rows |-> << EqRow(<<1, 1>>, 1) >>]

\* x1, x2, x3 binary: x1 + x2 + x3 = 1, minimize x1 + 2 x2 + 2 x3
ProblemAssign ==
  [obj |-> <<1, 2, 2>>, integral |-> <<TRUE, TRUE, TRUE>>,
   lb |-> <<U(0), U(0), U(0)>>, ub |-> <<U(1), U(1), U(1)>>,
   rows |-> << EqRow(<<1, 1, 1>>, 1) >>]

ProblemPool ==
  <<ProblemFlip, ProblemConflict, ProblemSingleRow, ProblemMixed,
    ProblemRedundant, ProblemPair, ProblemAssign>>

NCols(p) == Len(p.lb)
NRows(p) == Len(p.rows)
Cols(p) == 1..NCols(p)

\* the continuous estimates: the grid points of the box of the problem with
\* at most MaxFractional fractional components
MaxFractional == 1

ContVectors(p) ==
  {x \in [Cols(p) -> U(-1)..U(2)] :
     /\ \A j \in Cols(p) : p.lb[j] <= x[j] /\ x[j] <= p.ub[j]
     /\ Cardinality({j \in Cols(p) : ~isIntegral(x[j])}) <= MaxFractional}

RowSatisfied(row, x) ==
  /\ row.lhsInf \/ Dot(row.a, x) >= row.lhs
  /\ row.rhsInf \/ Dot(row.a, x) <= row.rhs

\* x satisfies every row that is not flagged redundant
RowsSatisfied(p, x) ==
  \A r \in 1..NRows(p) : p.rows[r].redundant \/ RowSatisfied(p.rows[r], x)

\* x lies within the bounds of the base problem
WithinBaseBounds(p, x) ==
  \A j \in Cols(p) : p.lb[j] <= x[j] /\ x[j] <= p.ub[j]

IntegerFeasible(p, x) ==
  /\ WithinBaseBounds(p, x)
  /\ RowsSatisfied(p, x)
  /\ \A j \in Cols(p) : p.integral[j] => isIntegral(x[j])

(***************************************************************************)
(* ProbingView: bounds overlay, fixings trail, infeasible latch            *)
(***************************************************************************)
reset(p) ==
  [lb |-> p.lb, ub |-> p.ub, infeasible |-> FALSE, fixings |-> <<>>]

setProbingColumn(v, col, value) ==
  [v EXCEPT !.lb[col] = value, !.ub[col] = value,
            !.fixings = Append(@, [col |-> col, value |-> value])]

MinActivity(row, v) ==
  SumSeq([j \in 1..Len(row.a) |->
            IF row.a[j] > 0 THEN row.a[j] * v.lb[j] ELSE row.a[j] * v.ub[j]])
MaxActivity(row, v) ==
  SumSeq([j \in 1..Len(row.a) |->
            IF row.a[j] > 0 THEN row.a[j] * v.ub[j] ELSE row.a[j] * v.lb[j]])

TightenUb(p, v, j, newub) ==
  LET nb == IF p.integral[j] THEN feasFloor(newub) ELSE newub
  IN  IF nb >= v.ub[j] THEN v
      ELSE IF nb < v.lb[j] THEN [v EXCEPT !.infeasible = TRUE]
      ELSE [v EXCEPT !.ub[j] = nb]

TightenLb(p, v, j, newlb) ==
  LET nb == IF p.integral[j] THEN feasCeil(newlb) ELSE newlb
  IN  IF nb <= v.lb[j] THEN v
      ELSE IF nb > v.ub[j] THEN [v EXCEPT !.infeasible = TRUE]
      ELSE [v EXCEPT !.lb[j] = nb]

\* the bounds of column j implied by row r and the bounds of the other columns
PropagateCol(p, v, r, j) ==
  LET row == p.rows[r]
      a == row.a[j]
      minrest == MinActivity(row, v) - (IF a > 0 THEN a * v.lb[j] ELSE a * v.ub[j])
      maxrest == MaxActivity(row, v) - (IF a > 0 THEN a * v.ub[j] ELSE a * v.lb[j])
      v1 == IF row.rhsInf THEN v
            ELSE IF a > 0 THEN TightenUb(p, v, j, FloorDiv(row.rhs - minrest, a))
            ELSE TightenLb(p, v, j, CeilDiv(row.rhs - minrest, a))
      v2 == IF v1.infeasible \/ row.lhsInf THEN v1
            ELSE IF a > 0 THEN TightenLb(p, v1, j, CeilDiv(row.lhs - maxrest, a))
            ELSE TightenUb(p, v1, j, FloorDiv(row.lhs - maxrest, a))
  IN  IF a = 0 THEN v ELSE v2

RECURSIVE PropagateRow(_, _, _, _)
PropagateRow(p, v, r, j) ==
  IF j > NCols(p) \/ v.infeasible THEN v
  ELSE PropagateRow(p, PropagateCol(p, v, r, j), r, j + 1)

RECURSIVE PropagateSweep(_, _, _)
PropagateSweep(p, v, r) ==
  IF r > NRows(p) \/ v.infeasible THEN v
  ELSE PropagateSweep(p, IF p.rows[r].redundant THEN v
                         ELSE PropagateRow(p, v, r, 1), r + 1)

\* rows in index order, sweep after sweep, until a sweep changes nothing
RECURSIVE propagateDomains(_, _)
propagateDomains(p, v) ==
  LET w == PropagateSweep(p, v, 1)
  IN  IF w.infeasible \/ w = v THEN w ELSE propagateDomains(p, w)

is_within_bounds(v, col, value) == v.lb[col] <= value /\ value <= v.ub[col]

\* the base problem of the run
problem == ProblemPool[problem_id]

(***************************************************************************)
(* RoundingStrategy::select_rounding_variable: the set of fixings a        *)
(* strategy may return; col = 0 is the invalid fixing.                     *)
(***************************************************************************)
InvalidFixing == [col |-> 0, value |-> 0]

AllIntegralSettled(p, x, v) ==
  \A j \in Cols(p) : p.integral[j] =>
     isIntegral(x[j]) /\ is_within_bounds(v, j, x[j])

select_rounding_variable(p, x, v) ==
  LET cand == {j \in Cols(p) : p.integral[j] /\ v.lb[j] # v.ub[j]}
  IN  IF cand = {} \/ AllIntegralSettled(p, x, v) THEN {InvalidFixing}
      ELSE UNION {{[col |-> j, value |-> val] :
                val \in {w \in v.lb[j]..v.ub[j] : isIntegral(w)}} : j \in cand}

(***************************************************************************)
(* FixAndPropagate                                                         *)
(***************************************************************************)
perform_probing_step(p, v) ==
  IF v.infeasible THEN v ELSE propagateDomains(p, v)

modify_value_due_to_backtrack(value, solution_value) ==
  IF value >= solution_value THEN value - U(1) ELSE value + U(1)

\* a completion that takes the upper bound where the estimate is within bounds
RemainingValue_UpperBound(x, v, i) ==
  LET ge_lb == x[i] >= v.lb[i]
  IN  IF ge_lb THEN v.ub[i] ELSE v.lb[i]

\* the value fix_remaining_integer_solutions gives column i
RemainingValue(x, v, i) ==
  LET ge_lb == x[i] >= v.lb[i]
      le_ub == x[i] <= v.ub[i]
  IN  IF ge_lb /\ le_ub THEN x[i]
      ELSE IF ge_lb THEN v.ub[i]
      ELSE v.lb[i]

\* a completion that stops once the view is infeasible
RECURSIVE FixRemainingFrom_UntilInfeasible(_, _, _, _)
FixRemainingFrom_UntilInfeasible(p, x, v, i) ==
  IF i > NCols(p) \/ v.infeasible THEN v
  ELSE IF v.ub[i] = v.lb[i] THEN FixRemainingFrom_UntilInfeasible(p, x, v, i + 1)
  ELSE FixRemainingFrom_UntilInfeasible(p, x,
         perform_probing_step(p, setProbingColumn(v, i, RemainingValue(x, v, i))),
         i + 1)

RECURSIVE FixRemainingFrom(_, _, _, _)
FixRemainingFrom(p, x, v, i) ==
  IF i > NCols(p) THEN v
  ELSE IF v.ub[i] = v.lb[i] THEN FixRemainingFrom(p, x, v, i + 1)
  ELSE FixRemainingFrom(p, x,
         perform_probing_step(p, setProbingColumn(v, i, RemainingValue(x, v, i))),
         i + 1)

fix_remaining_integer_solutions(p, x, v) == FixRemainingFrom(p, x, v, 1)

create_solution(v) == v.ub

\* a replay that includes the last decision of the trail
RECURSIVE Replay_All(_, _, _, _)
Replay_All(p, v, fixings, i) ==
  IF i > Len(fixings) THEN v
  ELSE Replay_All(p, perform_probing_step(p,
                     setProbingColumn(v, fixings[i].col, fixings[i].value)),
                  fixings, i + 1)

\* replay of the decisions 1..k of a trail on a reset view
RECURSIVE Replay(_, _, _, _)
Replay(p, v, fixings, i) ==
  IF i > Len(fixings) - 1 THEN v
  ELSE Replay(p, perform_probing_step(p,
                 setProbingColumn(v, fixings[i].col, fixings[i].value)),
              fixings, i + 1)

\* line 82-84: reset, then the dive of the chosen mode
FapEnter ==
  /\ fp_pc = "enter"
  /\ probing_view' = reset(problem)
  /\ fp_pc' = IF perform_backtracking THEN "dive" ELSE "dive_nb"
  /\ UNCHANGED <<problem_id, cont_solution, perform_backtracking,
                 stop_at_infeasibility, result, successful_backtracks, fp_ret>>

\* no dive stops at infeasibility
DiveStops_Never(pc) == FALSE

\* the stop flag of the call of propagate_to_leaf_or_infeasibility at pc
DiveStops(pc) ==
  CASE pc = "dive_nb" -> stop_at_infeasibility
    [] pc = "dive" -> TRUE
    [] pc = "dive_ff" -> FALSE

DiveExit(pc) ==
  CASE pc = "dive_nb" -> "after_nb"
    [] pc = "dive" -> "after_dive"
    [] pc = "dive_ff" -> "after_ff"

\* one round of the loop of propagate_to_leaf_or_infeasibility
DiveStep ==
  /\ fp_pc \in {"dive_nb", "dive", "dive_ff"}
  /\ \E fixing \in select_rounding_variable(problem, cont_solution, probing_view) :
       IF fixing = InvalidFixing
       THEN /\ fp_pc' = DiveExit(fp_pc)
            /\ UNCHANGED probing_view
       ELSE LET w == perform_probing_step(problem,
                       setProbingColumn(probing_view, fixing.col, fixing.value))
            IN  /\ probing_view' = w
                /\ fp_pc' = IF DiveStops(fp_pc) /\ w.infeasible
                            THEN DiveExit(fp_pc) ELSE fp_pc
  /\ UNCHANGED <<problem_id, cont_solution, perform_backtracking,
                 stop_at_infeasibility, result, successful_backtracks, fp_ret>>

\* fix_remaining_integer_solutions; create_solution; return isInfeasible()
Complete ==
  LET w == fix_remaining_integer_solutions(problem, cont_solution, probing_view)
  IN  /\ probing_view' = w
      /\ result' = create_solution(w)
      /\ fp_ret' = w.infeasible
      /\ fp_pc' = "done"

\* lines 88-92
ReturnNoBacktracking ==
  /\ fp_pc = "after_nb"
  /\ IF stop_at_infeasibility /\ probing_view.infeasible
     THEN /\ fp_ret' = TRUE
          /\ fp_pc' = "done"
          /\ UNCHANGED <<probing_view, result>>
     ELSE Complete
  /\ UNCHANGED <<problem_id, cont_solution, perform_backtracking,
                 stop_at_infeasibility, successful_backtracks>>

\* lines 132-137
ReturnLeaf ==
  /\ fp_pc = "after_dive"
  /\ ~probing_view.infeasible
  /\ Complete
  /\ UNCHANGED <<problem_id, cont_solution, perform_backtracking,
                 stop_at_infeasibility, successful_backtracks>>

\* the view after lines 103-119
BacktrackedView(p, x, v) ==
  LET fixings == v.fixings
      last_fix == fixings[Len(fixings)]
      replayed == Replay(p, reset(p), fixings, 1)
  IN  perform_probing_step(p,
        setProbingColumn(replayed, last_fix.col,
          modify_value_due_to_backtrack(last_fix.value, x[last_fix.col])))

\* lines 99-131
Backtrack ==
  /\ fp_pc = "after_dive"
  /\ probing_view.infeasible
  /\ LET w == BacktrackedView(problem, cont_solution, probing_view)
     IN  /\ probing_view' = w
         /\ IF w.infeasible
            THEN IF stop_at_infeasibility
                 THEN /\ fp_ret' = TRUE
                      /\ fp_pc' = "done"
                      /\ UNCHANGED successful_backtracks
                 ELSE /\ fp_pc' = "dive_ff"
                      /\ UNCHANGED <<fp_ret, successful_backtracks>>
            ELSE /\ successful_backtracks' = successful_backtracks + 1
                 /\ fp_pc' = "dive"
                 /\ UNCHANGED fp_ret
  /\ UNCHANGED <<problem_id, cont_solution, perform_backtracking,
                 stop_at_infeasibility, result>>

\* lines 126-128
ReturnFailedFlip ==
  /\ fp_pc = "after_ff"
  /\ Complete
  /\ UNCHANGED <<problem_id, cont_solution, perform_backtracking,
                 stop_at_infeasibility, successful_backtracks>>

\* an empty boost::optional<Problem<double>>
NoProblem ==
  [loaded |-> FALSE, obj |-> <<>>, lbInf |-> <<>>, ubInf |-> <<>>,
   lb |-> <<>>, ub |-> <<>>, rows |-> <<>>]

\* a ProblemBuilder on which no row has been set
NoRows == [nrows |-> 0, rows |-> <<>>]

\* main is not running
MainUnused ==
  /\ argv = "none" /\ instance_file = NoProblem /\ prob = NoProblem
  /\ reformulated = NoRows /\ min_value = 0
  /\ m_pc = "none" /\ exit_code = "none"

\* no VolumeAlgorithm object exists
VolumeUnused ==
  /\ pi = <<>> /\ pi_t = <<>> /\ pi_bar = <<>> /\ solved_with = <<>>
  /\ x_t = <<>> /\ z_bar = 0 /\ improvement_indicator = FALSE
  /\ counter = 0 /\ f = 0 /\ weak_improvement_iter_counter = 0
  /\ non_improvement_iter_counter = 0 /\ change_f = 0
  /\ alpha = 0 /\ alpha_max = 0 /\ z_bar_old = 0 /\ v_pc = "none"
  /\ box_upper_bound = 0 /\ num_int_vars = 0 /\ upper_bound = 0
  /\ finite_upper_bound = FALSE /\ fixed_int_vars_count = <<>>

\* no Heuristic object exists
HeuristicUnused ==
  /\ tbb = TRUE
  /\ int_solutions = <<>> /\ obj_value = <<>> /\ infeasible_arr = <<>>
  /\ best_obj_val = 0 /\ current_best_solution = <<>>
  /\ incumbent_in = <<>> /\ h_pc = "none" /\ tasks = <<>>
  /\ writers = {} /\ ran = {} /\ feasible_reported = FALSE
  /\ dive = <<>> /\ first_result = <<>>

InitFP ==
  /\ problem_id \in 1..Len(ProblemPool)
  /\ cont_solution \in ContVectors(problem)
  /\ perform_backtracking \in BOOLEAN
  /\ stop_at_infeasibility \in BOOLEAN
  /\ probing_view = reset(problem)
  /\ result = [j \in Cols(problem) |-> 0]
  /\ successful_backtracks = 0
  /\ fp_pc = "enter"
  /\ fp_ret = "none"
  /\ HeuristicUnused
  /\ VolumeUnused
  /\ mode = 0
  /\ MainUnused

NextFP ==
  \/ FapEnter /\ UNCHANGED <<hVars, vVars, mVars>>
  \/ DiveStep /\ UNCHANGED <<hVars, vVars, mVars>>
  \/ ReturnNoBacktracking /\ UNCHANGED <<hVars, vVars, mVars>>
  \/ ReturnLeaf /\ UNCHANGED <<hVars, vVars, mVars>>
  \/ Backtrack /\ UNCHANGED <<hVars, vVars, mVars>>
  \/ ReturnFailedFlip /\ UNCHANGED <<hVars, vVars, mVars>>

SpecFP == InitFP /\ [][NextFP]_vars

\* C1: whenever fix_and_propagate returns false, the vector written to result
\* satisfies every non-redundant row and the bounds of the base problem
C1_FeasibleResult ==
  (fp_pc = "done" /\ fp_ret = FALSE) =>
     RowsSatisfied(problem, result) /\ WithinBaseBounds(problem, result)

Strategies == IF tbb THEN 0..3 ELSE {0}

\* the members after setup(): zero vectors, verdict true, objective 0
SetupSlots ==
  /\ int_solutions = [i \in Strategies |-> [j \in Cols(problem) |-> 0]]
  /\ obj_value = [i \in Strategies |-> 0]
  /\ infeasible_arr = [i \in Strategies |-> TRUE]

\* tbb::blocked_range<int>( b, e ): the sequences of subranges parallel_for
\* may hand to the body, by halving a divisible range or running it whole
RECURSIVE RangeSplits(_, _)
RangeSplits(b, e) ==
  LET m == b + (e - b) \div 2
  IN  {<< [begin |-> b, end |-> e] >>} \cup
      (IF e - b < 2 THEN {}
       ELSE {l \o r : l \in RangeSplits(b, m), r \in RangeSplits(m, e)})

\* F applied to the value of x, with x evaluated once
Strict(x, F(_)) == CHOOSE y \in {F(v) : v \in {x}} : TRUE

calculate_obj_value(p, int_solution) == Dot(int_solution, p.obj)

(***************************************************************************)
(* The dive of one strategy.  The fix_and_propagate overload Heuristic     *)
(* calls reports infeasible and leaves the buffer alone, or reports        *)
(* feasible and writes an integer-feasible point to the buffer.            *)
(***************************************************************************)
FeasiblePoints(p) == {x \in ContVectors(p) : IntegerFeasible(p, x)}

DiveOutcomes(p) ==
  {[infeasible |-> TRUE, sol |-> <<>>]} \cup
  {[infeasible |-> FALSE, sol |-> s] : s \in FeasiblePoints(p)}

(***************************************************************************)
(* perform_fix_and_propagate: the body of the first parallel_for.          *)
(* sh holds the members, t the invocation: index i, range end, position,   *)
(* the word of infeasible_arr it loaded and the verdict it holds.          *)
(*   call  : fix_and_propagate runs; the word of the verdict bit is loaded *)
(*   store : the word with bit i replaced is written back                  *)
(*   check : if( infeasible_arr[i] ) { obj_value[i] = 0; break; } ...      *)
(***************************************************************************)
NoFlip ==
  [slot |-> -1, col |-> 0, infeasible |-> TRUE, stored |-> 0, value |-> 0,
   result |-> <<>>]

NewTask(r, pc) ==
  [i |-> r.begin, end |-> r.end, pc |-> pc, word |-> <<>>, ret |-> FALSE,
   j |-> 1, last |-> NoFlip]

Members ==
  [int_solutions |-> int_solutions, obj_value |-> obj_value,
   infeasible_arr |-> infeasible_arr, ran |-> ran,
   feasible_reported |-> feasible_reported]

DiveTaskStep(p, sh, t, d) ==
  CASE t.pc = "call" ->
         [sh |-> [sh EXCEPT !.int_solutions[t.i] =
                               IF d.infeasible THEN @ ELSE d.sol,
                            !.ran = @ \cup {t.i},
                            !.feasible_reported = @ \/ ~d.infeasible],
          t |-> [t EXCEPT !.pc = "store", !.ret = d.infeasible,
                          !.word = sh.infeasible_arr]]
    [] t.pc = "store" ->
         [sh |-> [sh EXCEPT !.infeasible_arr = [t.word EXCEPT ![t.i] = t.ret]],
          t |-> [t EXCEPT !.pc = "check"]]
    [] t.pc = "check" ->
         IF sh.infeasible_arr[t.i]
         THEN [sh |-> [sh EXCEPT !.obj_value[t.i] = 0],
               t |-> [t EXCEPT !.pc = "done"]]
         ELSE [sh |-> [sh EXCEPT !.obj_value[t.i] =
                          calculate_obj_value(p, sh.int_solutions[t.i])],
               t |-> [t EXCEPT !.i = @ + 1,
                               !.pc = IF t.i + 1 = t.end THEN "done"
                                      ELSE "call"]]

\* one invocation of the body run to its end; dv gives each dive's outcome
RECURSIVE RunDiveTask(_, _, _, _)
RunDiveTask(p, sh, t, dv) ==
  IF t.pc = "done" THEN sh
  ELSE Strict(DiveTaskStep(p, sh, t, dv[t.i]),
              LAMBDA r : RunDiveTask(p, r.sh, r.t, dv))

\* the invocations of a split run one after the other
RECURSIVE RunDiveChunks(_, _, _, _, _)
RunDiveChunks(p, sh, split, k, dv) ==
  IF k > Len(split) THEN sh
  ELSE Strict(RunDiveTask(p, sh, NewTask(split[k], "call"), dv),
              LAMBDA s : RunDiveChunks(p, s, split, k + 1, dv))

(***************************************************************************)
(* perform_one_opt                                                         *)
(***************************************************************************)
\* FixAndPropagate::one_opt on the view the caller has just reset
one_opt(p, feasible_solution, col, new_value, result_) ==
  LET completed(v1) ==
        Strict(fix_remaining_integer_solutions(p, feasible_solution, v1),
               LAMBDA v2 : [infeasible |-> v2.infeasible,
                            result |-> create_solution(v2)])
      probed(v1) ==
        IF v1.infeasible THEN [infeasible |-> TRUE, result |-> result_]
        ELSE completed(v1)
  IN  Strict(perform_probing_step(p, setProbingColumn(reset(p), col, new_value)),
             probed)

\* the flip is accepted whatever its objective
Improves_Always(value, stored) == TRUE

\* num.isLT( value, obj_value[i] )
Improves(value, stored) == value < stored

\* the body of the loop over j for slot i: the slot afterwards, whether the
\* loop is left by break, and the report of the call of one_opt (if any)
OneOptColumn(p, sol, obj, i, j) ==
  LET c == p.obj[j]
      keep(exit) == [sol |-> sol, obj |-> obj, exit |-> exit, last |-> NoFlip]
      judge(r, exit) ==
        LET value == calculate_obj_value(p, r.result)
            report == [slot |-> i, col |-> j, infeasible |-> r.infeasible,
                       stored |-> obj, value |-> value, result |-> r.result]
        IN  IF r.infeasible
            THEN [sol |-> sol, obj |-> obj, exit |-> FALSE, last |-> report]
            ELSE IF Improves(value, obj)
            THEN [sol |-> r.result, obj |-> value, exit |-> exit, last |-> report]
            ELSE [sol |-> sol, obj |-> obj, exit |-> exit, last |-> report]
      flip(new_value, exit) ==
        Strict(one_opt(p, sol, j, new_value, sol), LAMBDA r : judge(r, exit))
  IN  IF c = 0 THEN keep(TRUE)
      ELSE IF ~p.integral[j] \/ p.lb[j] # 0 \/ p.ub[j] # U(1) THEN keep(FALSE)
      ELSE IF c > 0
      THEN IF sol[j] = 0 THEN keep(FALSE) ELSE flip(U(0), FALSE)
      ELSE flip(U(1), TRUE)

\* one round of the loop over j of the invocation t, and the step to the
\* next index of its range when the loop ends
OneOptTaskStep(p, sh, t) ==
  LET after(r) ==
        LET ends == r.exit \/ t.j = NCols(p)
        IN  [sh |-> [sh EXCEPT !.int_solutions[t.i] = r.sol,
                               !.obj_value[t.i] = r.obj],
             t |-> [t EXCEPT !.last = r.last,
                             !.j = IF ends THEN 1 ELSE @ + 1,
                             !.i = IF ends THEN @ + 1 ELSE @,
                             !.pc = IF ends /\ t.i + 1 = t.end THEN "done"
                                    ELSE @]]
  IN  Strict(OneOptColumn(p, sh.int_solutions[t.i], sh.obj_value[t.i], t.i, t.j),
             after)

RECURSIVE RunOneOptTask(_, _, _)
RunOneOptTask(p, sh, t) ==
  IF t.pc = "done" THEN sh
  ELSE Strict(OneOptTaskStep(p, sh, t),
              LAMBDA r : RunOneOptTask(p, r.sh, r.t))

RECURSIVE RunOneOptChunks(_, _, _, _)
RunOneOptChunks(p, sh, split, k) ==
  IF k > Len(split) THEN sh
  ELSE Strict(RunOneOptTask(p, sh, NewTask(split[k], "scan")),
              LAMBDA s : RunOneOptChunks(p, s, split, k + 1))

(***************************************************************************)
(* evaluate                                                                *)
(***************************************************************************)
\* the slot with the higher objective is taken
Selects_Higher(infeasible, obj, best, empty, best_index) ==
  ~infeasible /\ (obj > best \/ (empty /\ best_index = -1))

\* the condition under which the loop of evaluate takes slot i
Selects(infeasible, obj, best, empty, best_index) ==
  ~infeasible /\ (obj < best \/ (empty /\ best_index = -1))

RECURSIVE EvaluateLoop(_, _, _, _, _)
EvaluateLoop(sh, empty, i, best_index, best) ==
  IF i \notin DOMAIN sh.obj_value
  THEN [best_index |-> best_index, best_obj_val |-> best]
  ELSE IF Selects(sh.infeasible_arr[i], sh.obj_value[i], best, empty, best_index)
  THEN EvaluateLoop(sh, empty, i + 1, i, sh.obj_value[i])
  ELSE EvaluateLoop(sh, empty, i + 1, best_index, best)

\* the caller's incumbent after evaluate( best_obj_val, current_best_solution )
evaluate(sh, best, current) ==
  LET r == EvaluateLoop(sh, current = <<>>, 0, -1, best)
  IN  IF \A i \in DOMAIN sh.infeasible_arr : sh.infeasible_arr[i]
      THEN [val |-> best, sol |-> current]
      ELSE IF r.best_index = -1 THEN [val |-> best, sol |-> current]
      ELSE [val |-> r.best_obj_val, sol |-> sh.int_solutions[r.best_index]]

(***************************************************************************)
(* perform_fix_and_propagate, one action per phase of the call             *)
(***************************************************************************)
\* fix_and_propagate is not running
FapUnused ==
  /\ cont_solution = <<>> /\ perform_backtracking = FALSE
  /\ stop_at_infeasibility = FALSE /\ probing_view = <<>>
  /\ result = <<>> /\ successful_backtracks = 0
  /\ fp_pc = "none" /\ fp_ret = "none"

IdOf(p) == CHOOSE k \in DOMAIN ProblemPool : ProblemPool[k] = p

\* the incumbents a caller passes: none yet, or a feasible point it knows
CallerIncumbents(p) ==
  {[val |-> U(0), sol |-> <<>>]} \cup
  {[val |-> calculate_obj_value(p, s), sol |-> s] : s \in FeasiblePoints(p)}

\* the outcomes of the four dives of one call
DiveVectors ==
  {dv \in [Strategies -> DiveOutcomes(problem)] :
     \A i \in Strategies : dv[i] \in dive[i]}

SetMembers(sh) ==
  /\ int_solutions' = sh.int_solutions
  /\ obj_value' = sh.obj_value
  /\ infeasible_arr' = sh.infeasible_arr
  /\ ran' = sh.ran
  /\ feasible_reported' = sh.feasible_reported

\* the caller invokes perform_fix_and_propagate
CallStart ==
  /\ h_pc \in {"idle", "returned"}
  /\ \E inc \in CallerIncumbents(problem) \cup
                 {[val |-> best_obj_val, sol |-> current_best_solution]} :
       /\ best_obj_val' = inc.val
       /\ current_best_solution' = inc.sol
       /\ incumbent_in' = inc
  /\ ran' = {}
  /\ feasible_reported' = FALSE
  /\ h_pc' = "dive"
  /\ UNCHANGED <<tbb, int_solutions, obj_value, infeasible_arr, tasks,
                 writers, dive, first_result, fpVars, vVars, mVars>>

\* lines 131-152 with the invocations of the body run one after the other
ParallelDive ==
  /\ h_pc = "dive" /\ tbb
  /\ \E split \in RangeSplits(0, 4), dv \in DiveVectors :
       SetMembers(RunDiveChunks(problem, Members, split, 1, dv))
  /\ h_pc' = "one_opt"
  /\ UNCHANGED <<tbb, best_obj_val, current_best_solution, incumbent_in,
                 tasks, writers, dive, first_result, fpVars, vVars, mVars>>

\* line 153 with the invocations of the body run one after the other
PerformOneOpt ==
  /\ h_pc = "one_opt"
  /\ \E split \in RangeSplits(0, 4) :
       SetMembers(RunOneOptChunks(problem, Members, split, 1))
  /\ h_pc' = "evaluate"
  /\ UNCHANGED <<tbb, best_obj_val, current_best_solution, incumbent_in,
                 tasks, writers, dive, first_result, fpVars, vVars, mVars>>

\* lines 155-166: the build without PAPILO_TBB
SingleDive ==
  /\ h_pc = "dive" /\ ~tbb
  /\ \E d \in dive[0] :
       /\ int_solutions' = [int_solutions EXCEPT
                               ![0] = IF d.infeasible THEN @ ELSE d.sol]
       /\ infeasible_arr' = [infeasible_arr EXCEPT ![0] = d.infeasible]
       /\ obj_value' = [obj_value EXCEPT ![0] =
              IF d.infeasible THEN 0 ELSE calculate_obj_value(problem, d.sol)]
       /\ feasible_reported' = ~d.infeasible
       /\ h_pc' = IF d.infeasible THEN "returned" ELSE "evaluate"
  /\ ran' = {0}
  /\ UNCHANGED <<tbb, best_obj_val, current_best_solution, incumbent_in,
                 tasks, writers, dive, first_result, fpVars, vVars, mVars>>

\* line 168
Evaluate ==
  /\ h_pc = "evaluate"
  /\ LET r == evaluate(Members, best_obj_val, current_best_solution)
     IN  /\ best_obj_val' = r.val
         /\ current_best_solution' = r.sol
  /\ h_pc' = "returned"
  /\ UNCHANGED <<tbb, int_solutions, obj_value, infeasible_arr, incumbent_in,
                 tasks, writers, ran, feasible_reported, dive, first_result,
                 fpVars, vVars, mVars>>

\* a Heuristic object after setup(), called again and again
InitHeur ==
  /\ problem_id = IdOf(ProblemPair)
  /\ FapUnused
  /\ VolumeUnused
  /\ mode = 0
  /\ MainUnused
  /\ tbb \in BOOLEAN
  /\ SetupSlots
  /\ best_obj_val = U(0) /\ current_best_solution = <<>>
  /\ incumbent_in = [val |-> U(0), sol |-> <<>>]
  /\ h_pc = "idle" /\ tasks = <<>> /\ writers = {}
  /\ ran = {} /\ feasible_reported = FALSE
  /\ dive = [i \in Strategies |-> DiveOutcomes(problem)]
  /\ first_result = [set |-> FALSE, val |-> 0, sol |-> <<>>]

NextHeur ==
  \/ CallStart
  \/ ParallelDive
  \/ PerformOneOpt
  \/ SingleDive
  \/ Evaluate

SpecHeur == InitHeur /\ [][NextHeur]_vars

\* the caller's incumbent differs from the one it passed
IncumbentChanged ==
  best_obj_val # incumbent_in.val \/ current_best_solution # incumbent_in.sol

FeasibleSlots == {i \in Strategies : ~infeasible_arr[i]}

\* C4: with a non-empty incumbent, evaluate changes the incumbent only if a
\* slot with verdict feasible has an objective strictly below the incoming
\* best_obj_val, and then the new incumbent is a feasible slot of lowest
\* objective and best_obj_val is the objective of that slot
C4_Reduction ==
  (h_pc = "returned" /\ incumbent_in.sol # <<>> /\ IncumbentChanged) =>
     /\ \E i \in FeasibleSlots : obj_value[i] < incumbent_in.val
     /\ \E i \in FeasibleSlots :
          /\ \A k \in FeasibleSlots : obj_value[i] <= obj_value[k]
          /\ current_best_solution = int_solutions[i]
          /\ best_obj_val = obj_value[i]

C4_Witness ==
  /\ h_pc = "returned" /\ incumbent_in.sol # <<>> /\ IncumbentChanged
  /\ \E i, k \in FeasibleSlots :
       /\ obj_value[i] < obj_value[k]
       /\ best_obj_val = obj_value[i]
       /\ current_best_solution = int_solutions[i]
       /\ obj_value[i] < incumbent_in.val

\* C5: a call in which no dive reports a feasible result leaves best_obj_val
\* and current_best_solution as the caller passed them
C5_UnchangedWhenInfeasible ==
  (h_pc = "returned" /\ ran # {} /\ ~feasible_reported) => ~IncumbentChanged

\* C6: in the parallel build, after the first parallel phase of a call
\* fix_and_propagate has run for each of the four strategy indices
C6_EveryStrategyRuns ==
  (tbb /\ h_pc = "one_opt") => ran = Strategies

(***************************************************************************)
(* The parallel regions with the invocations of the body interleaved.      *)
(***************************************************************************)
\* the storage a step of invocation t writes; the bits of infeasible_arr
\* share the words of a std::vector<bool> (64 bits a word)
Writes(t) ==
  CASE t.pc = "call" -> {<<"views", t.i>>, <<"int_solutions", t.i>>}
    [] t.pc = "store" -> {<<"infeasible_arr", t.i \div 64>>}
    [] t.pc = "check" -> {<<"obj_value", t.i>>}
    [] t.pc = "scan" -> {<<"views", t.i>>, <<"int_solutions", t.i>>,
                         <<"obj_value", t.i>>}

AllTasksDone == \A k \in DOMAIN tasks : tasks[k].pc = "done"

\* tbb::parallel_for of perform_fix_and_propagate starts
Fork ==
  /\ h_pc = "dive" /\ tbb
  /\ \E split \in RangeSplits(0, 4) :
       tasks' = [k \in 1..Len(split) |-> NewTask(split[k], "call")]
  /\ h_pc' = "par_dive"
  /\ writers' = {}
  /\ UNCHANGED <<tbb, int_solutions, obj_value, infeasible_arr, best_obj_val,
                 current_best_solution, incumbent_in, ran, feasible_reported,
                 dive, first_result, fpVars, vVars, mVars>>

\* one step of one invocation of the body, lines 135-150
TaskDiveStep ==
  /\ h_pc = "par_dive"
  /\ \E k \in DOMAIN tasks :
       /\ tasks[k].pc \in {"call", "store", "check"}
       /\ \E d \in IF tasks[k].pc = "call" THEN dive[tasks[k].i]
                    ELSE {[infeasible |-> TRUE, sol |-> <<>>]} :
            \E r \in {DiveTaskStep(problem, Members, tasks[k], d)} :
               /\ SetMembers(r.sh)
               /\ tasks' = [tasks EXCEPT ![k] = r.t]
       /\ writers' = writers \cup {<<loc, k>> : loc \in Writes(tasks[k])}
  /\ UNCHANGED <<tbb, best_obj_val, current_best_solution, incumbent_in,
                 h_pc, dive, first_result, fpVars, vVars, mVars>>

\* the first parallel_for returns; the one of perform_one_opt starts
JoinDive ==
  /\ h_pc = "par_dive" /\ AllTasksDone
  /\ \E split \in RangeSplits(0, 4) :
       tasks' = [k \in 1..Len(split) |-> NewTask(split[k], "scan")]
  /\ h_pc' = "par_one_opt"
  /\ writers' = {}
  /\ UNCHANGED <<tbb, int_solutions, obj_value, infeasible_arr, best_obj_val,
                 current_best_solution, incumbent_in, ran, feasible_reported,
                 dive, first_result, fpVars, vVars, mVars>>

\* one round of the loop over j of one invocation, lines 187-253
TaskOneOptStep ==
  /\ h_pc = "par_one_opt"
  /\ \E k \in DOMAIN tasks :
       /\ tasks[k].pc = "scan"
       /\ \E r \in {OneOptTaskStep(problem, Members, tasks[k])} :
            /\ SetMembers(r.sh)
            /\ tasks' = [tasks EXCEPT ![k] = r.t]
       /\ writers' = writers \cup {<<loc, k>> : loc \in Writes(tasks[k])}
  /\ UNCHANGED <<tbb, best_obj_val, current_best_solution, incumbent_in,
                 h_pc, dive, first_result, fpVars, vVars, mVars>>

\* the parallel_for of perform_one_opt returns
JoinOneOpt ==
  /\ h_pc = "par_one_opt" /\ AllTasksDone
  /\ h_pc' = "evaluate"
  /\ UNCHANGED <<tbb, int_solutions, obj_value, infeasible_arr, best_obj_val,
                 current_best_solution, incumbent_in, tasks, writers, ran,
                 feasible_reported, dive, first_result, fpVars, vVars, mVars>>

\* the first call on a Heuristic object after setup(), without an incumbent;
\* a dive reports infeasible or reaches the point the estimate leads to
InitRace ==
  /\ problem_id = IdOf(ProblemPair)
  /\ FapUnused
  /\ VolumeUnused
  /\ mode = 0
  /\ MainUnused
  /\ tbb = TRUE
  /\ SetupSlots
  /\ incumbent_in = [val |-> U(0), sol |-> <<>>]
  /\ best_obj_val = incumbent_in.val
  /\ current_best_solution = incumbent_in.sol
  /\ h_pc = "dive" /\ tasks = <<>> /\ writers = {}
  /\ ran = {} /\ feasible_reported = FALSE
  /\ \E s \in FeasiblePoints(problem) :
       dive = [i \in Strategies |->
                 {[infeasible |-> TRUE, sol |-> <<>>],
                  [infeasible |-> FALSE, sol |-> s]}]
  /\ first_result = [set |-> FALSE, val |-> 0, sol |-> <<>>]

NextRace ==
  \/ Fork
  \/ TaskDiveStep
  \/ JoinDive
  \/ TaskOneOptStep
  \/ JoinOneOpt
  \/ Evaluate

SpecRace == InitRace /\ [][NextRace]_vars

\* C7: inside the parallel regions no two invocations write the same
\* storage, and evaluate starts only after every invocation has finished
C7_DisjointWrites ==
  /\ \A w1, w2 \in writers : w1[1] = w2[1] => w1[2] = w2[2]
  /\ h_pc \in {"evaluate", "returned"} => AllTasksDone

(***************************************************************************)
(* perform_one_opt on its own: one invocation of the body on some subrange *)
(* whose slots hold what a dive left there                                 *)
(***************************************************************************)
IntegerPoints(p) == {x \in ContVectors(p) : \A j \in Cols(p) : isIntegral(x[j])}

\* the subranges an invocation of the body can be handed
Ranges ==
  UNION {{split[k] : k \in DOMAIN split} : split \in RangeSplits(0, 4)}

InitOneOpt ==
  /\ problem_id \in DOMAIN ProblemPool
  /\ FapUnused
  /\ VolumeUnused
  /\ mode = 0
  /\ MainUnused
  /\ tbb = TRUE
  /\ incumbent_in = [val |-> U(0), sol |-> <<>>]
  /\ best_obj_val = incumbent_in.val
  /\ current_best_solution = incumbent_in.sol
  /\ h_pc = "par_one_opt" /\ writers = {}
  /\ ran = {} /\ feasible_reported = FALSE
  /\ dive = [i \in Strategies |-> DiveOutcomes(problem)]
  /\ first_result = [set |-> FALSE, val |-> 0, sol |-> <<>>]
  /\ \E s \in IntegerPoints(problem), r \in Ranges :
       /\ tasks = << NewTask(r, "scan") >>
       /\ \E i0 \in r.begin..(r.end - 1) :
          \E o \in {calculate_obj_value(problem, s), 0} :
            /\ int_solutions = [i \in Strategies |->
                   IF i = i0 THEN s ELSE [j \in Cols(problem) |-> 0]]
            /\ obj_value = [i \in Strategies |-> IF i = i0 THEN o ELSE 0]
            /\ infeasible_arr = [i \in Strategies |->
                   IF i = i0 THEN o # calculate_obj_value(problem, s) ELSE TRUE]

NextOneOpt ==
  \/ TaskOneOptStep
  \/ JoinOneOpt

SpecOneOpt == InitOneOpt /\ [][NextOneOpt]_vars

\* C3: a step of perform_one_opt never raises obj_value[i], and it replaces
\* int_solutions[i] only by the result of a flip that one_opt reported
\* feasible and whose objective is strictly below the stored obj_value[i]
C3_OneOptMonotone ==
  [][h_pc = "par_one_opt" =>
       \A i \in Strategies :
          /\ obj_value'[i] <= obj_value[i]
          /\ int_solutions'[i] # int_solutions[i] =>
               \E k \in DOMAIN tasks' :
                  /\ tasks'[k].last.slot = i
                  /\ ~tasks'[k].last.infeasible
                  /\ tasks'[k].last.result = int_solutions'[i]
                  /\ obj_value'[i] = calculate_obj_value(problem, int_solutions'[i])
                  /\ obj_value'[i] < obj_value[i]]_vars

C3_Witness ==
  /\ h_pc = "par_one_opt"
  /\ \E k \in DOMAIN tasks :
       /\ tasks[k].last.slot \in Strategies
       /\ ~tasks[k].last.infeasible
       /\ tasks[k].last.value < tasks[k].last.stored
       /\ int_solutions[tasks[k].last.slot] = tasks[k].last.result
       /\ obj_value[tasks[k].last.slot] = tasks[k].last.value

(***************************************************************************)
(* Two runs of setup() and perform_fix_and_propagate on the same problem,  *)
(* estimate and incumbent: every strategy reports the same in both runs    *)
(***************************************************************************)
\* the first run has returned; setup() and the call are made again
Rerun ==
  /\ h_pc = "returned" /\ ~first_result.set
  /\ first_result' = [set |-> TRUE, val |-> best_obj_val,
                                    sol |-> current_best_solution]
  /\ int_solutions' = [i \in Strategies |-> [j \in Cols(problem) |-> 0]]
  /\ obj_value' = [i \in Strategies |-> 0]
  /\ infeasible_arr' = [i \in Strategies |-> TRUE]
  /\ best_obj_val' = incumbent_in.val
  /\ current_best_solution' = incumbent_in.sol
  /\ ran' = {}
  /\ feasible_reported' = FALSE
  /\ h_pc' = "dive"
  /\ UNCHANGED <<tbb, incumbent_in, tasks, writers, dive, fpVars, vVars, mVars>>

InitTwoRuns ==
  /\ problem_id = IdOf(ProblemAssign)
  /\ FapUnused
  /\ VolumeUnused
  /\ mode = 0
  /\ MainUnused
  /\ tbb = TRUE
  /\ SetupSlots
  /\ incumbent_in \in CallerIncumbents(problem)
  /\ best_obj_val = incumbent_in.val
  /\ current_best_solution = incumbent_in.sol
  /\ h_pc = "dive" /\ tasks = <<>> /\ writers = {}
  /\ ran = {} /\ feasible_reported = FALSE
  /\ \E dv \in [Strategies -> DiveOutcomes(problem)] :
       dive = [i \in Strategies |-> {dv[i]}]
  /\ first_result = [set |-> FALSE, val |-> 0, sol |-> <<>>]

NextTwoRuns ==
  \/ ParallelDive
  \/ PerformOneOpt
  \/ Evaluate
  \/ Rerun

SpecTwoRuns == InitTwoRuns /\ [][NextTwoRuns]_vars

\* C8: the second of two runs on the same inputs selects the objective value
\* and the solution the first run selected, and a changed incumbent is the
\* slot of lowest index among the feasible slots of the selected objective
C8_Deterministic ==
  /\ (h_pc = "returned" /\ first_result.set) =>
        /\ best_obj_val = first_result.val
        /\ current_best_solution = first_result.sol
  /\ (h_pc = "returned" /\ IncumbentChanged) =>
        LET LowestBestSlot ==
              CHOOSE i \in FeasibleSlots :
                /\ obj_value[i] = best_obj_val
                /\ \A k \in FeasibleSlots :
                      obj_value[k] = best_obj_val => i <= k
        IN  current_best_solution = int_solutions[LowestBestSlot]

(***************************************************************************)
(* VolumeAlgorithm                                                         *)
(***************************************************************************)
\* resolution of f: the real number 1 is FUnit units
FUnit == 10000

\* the iteration limit of stopping_criteria
MaxIterations == 3

Scaled(num, den) == (num * FUnit) \div den

\* factor * x for a factor given as <<numerator, denominator>>
Times(factor, x) == (factor[1] * x) \div factor[2]

\* AlgorithmParameter with its default values
parameter ==
  [alpha |-> Scaled(5, 10), alpha_max |-> Scaled(1, 10),
   f |-> Scaled(2, 10), f_min |-> Scaled(5, 10000), f_max |-> Scaled(2, 1),
   f_strong_incr_factor |-> <<2, 1>>, f_weak_incr_factor |-> <<11, 10>>,
   f_decr_factor |-> <<66, 100>>,
   weak_improvement_iter_limit |-> 2, non_improvement_iter_limit |-> 20,
   max_iterations |-> MaxIterations,
   num_iters_fixed_int_vars_check |-> 1, fixed_int_var_threshold |-> <<1, 2>>]

\* the reformulated problem: minimize c x, rows A x >= b (kRhsInf) or
\* A x = b, box domains; c, A, b and the bounds in whole numbers
VolumeProblem ==
  [c |-> <<1, 2>>,
   A |-> << <<1, 2>>, <<0, 1>> >>,
   b |-> <<3, 1>>,
   kRhsInf |-> <<TRUE, FALSE>>,
   lower_bounds |-> <<0, 0>>,
   upper_bounds |-> <<1, 1>>,
   kLbInf |-> <<FALSE, FALSE>>,
   kUbInf |-> <<FALSE, FALSE>>,
   kIntegral |-> <<FALSE, FALSE>>]

\* the same rows with b = (-1, 1) and the first column without lower bound
VolumeFree ==
  [c |-> <<1, 2>>,
   A |-> << <<1, 2>>, <<0, 1>> >>,
   b |-> <<-1, 1>>,
   kRhsInf |-> <<TRUE, FALSE>>,
   lower_bounds |-> <<0, 0>>,
   upper_bounds |-> <<1, 1>>,
   kLbInf |-> <<TRUE, FALSE>>,
   kUbInf |-> <<FALSE, FALSE>>,
   kIntegral |-> <<FALSE, TRUE>>]

\* the problem of the run
volume_problem == IF problem_id = 2 THEN VolumeFree ELSE VolumeProblem

VRows == DOMAIN VolumeProblem.A
VCols == DOMAIN VolumeProblem.c

\* the initial multiplier vectors a caller passes (grid units)
InitialPi == [VRows -> {U(-1), U(0), U(1)}]

\* v_t = b - A x_bar of an iteration, in whole numbers: it takes either sign
\* in every row; with step_size one grid unit it is step_size * v_t as well
StepVectors == [VRows -> {-1, 0, 1}]

max(a, b) == IF a >= b THEN a ELSE b
min(a, b) == IF a <= b THEN a ELSE b

\* the projection of the >=-row multipliers
update_pi(P, pi_) ==
  [i \in VRows |-> IF P.kRhsInf[i] THEN max(pi_[i], 0) ELSE pi_[i]]

\* c - pi A
calc_b_minus_xA(P, pi_) ==
  [j \in VCols |->
     U(P.c[j]) - SumSeq([i \in VRows |-> pi_[i] * P.A[i][j]])]

\* std::numeric_limits<REAL>::min(), the smallest positive normalized value:
\* on the grid, and for Num's comparisons, it is 0
numeric_limits_min == 0

\* problem (6) for the multipliers pi_: [z |-> the value returned, x |->
\* the vector `solution` after the call]; the loop returns at the first
\* column whose chosen side is infinite and leaves the rest of `solution`
create_problem_6_and_solve_it(P, pi_, solution) ==
  LET updated_objective == calc_b_minus_xA(P, pi_)
      infinite == {j \in VCols :
                     \/ updated_objective[j] > 0 /\ P.kLbInf[j]
                     \/ updated_objective[j] < 0 /\ P.kUbInf[j]}
      value(j) == IF updated_objective[j] = 0 THEN P.lower_bounds[j]
                  ELSE IF updated_objective[j] > 0 THEN P.lower_bounds[j]
                  ELSE P.upper_bounds[j]
  IN  IF infinite = {}
      THEN LET full == [j \in VCols |-> value(j)]
           IN  [z |-> Dot(P.b, pi_) + Dot(updated_objective, full),
                x |-> full]
      ELSE LET i == CHOOSE j \in infinite : \A l \in infinite : j <= l
           IN  [z |-> numeric_limits_min,
                x |-> [j \in VCols |-> IF j < i THEN value(j) ELSE solution[j]]]

\* update_f without the test of the decreased value against f_min
update_f_Unguarded(improvement, d_nonneg, f_, weak, non) ==
  LET weak1 == IF improvement /\ ~d_nonneg THEN weak + 1 ELSE weak
      non1  == IF ~improvement THEN non + 1 ELSE non
      change == IF improvement
                THEN IF d_nonneg THEN 2
                     ELSE IF weak1 >= parameter.weak_improvement_iter_limit
                          THEN 1 ELSE 0
                ELSE IF non1 >= parameter.non_improvement_iter_limit
                     THEN -1 ELSE 0
  IN  [f |-> IF change = 2
             THEN min(Times(parameter.f_strong_incr_factor, f_), parameter.f_max)
             ELSE IF change = 1
             THEN min(Times(parameter.f_weak_incr_factor, f_), parameter.f_max)
             ELSE IF change <= -1
             THEN Times(parameter.f_decr_factor, f_)
             ELSE f_,
       weak |-> IF change = 1 THEN 0 ELSE weak1,
       non |-> IF change = -1 THEN 0 ELSE non1,
       change_f |-> change]

\* update_f: improvement is improvement_indicator, d_nonneg is
\* num.isGE( op.multi( v_t, residual_t ), 0 )
update_f(improvement, d_nonneg, f_, weak, non) ==
  LET weak1 == IF improvement /\ ~d_nonneg THEN weak + 1 ELSE weak
      non1  == IF ~improvement THEN non + 1 ELSE non
      change == IF improvement
                THEN IF d_nonneg THEN 2
                     ELSE IF weak1 >= parameter.weak_improvement_iter_limit
                          THEN 1 ELSE 0
                ELSE IF non1 >= parameter.non_improvement_iter_limit
                     THEN -1 ELSE 0
  IN  [f |-> IF change = 2
             THEN min(Times(parameter.f_strong_incr_factor, f_), parameter.f_max)
             ELSE IF change = 1
             THEN min(Times(parameter.f_weak_incr_factor, f_), parameter.f_max)
             ELSE IF change <= -1
                     /\ Times(parameter.f_decr_factor, f_) >= parameter.f_min
             THEN Times(parameter.f_decr_factor, f_)
             ELSE f_,
       weak |-> IF change = 1 THEN 0 ELSE weak1,
       non |-> IF change = -1 THEN 0 ELSE non1,
       change_f |-> change]

\* b - A x for a vector x of whole numbers
calc_b_minus_Ax(P, x) ==
  [i \in VRows |-> P.b[i] - Dot(P.A[i], x)]

\* calc_alpha: the new alpha for the residuals of x_t and of x_bar
calc_alpha(residual_t, residual_bar, alpha_max_) ==
  LET t_t_prod == Dot(residual_t, residual_t)
      t_bar_prod == Dot(residual_t, residual_bar)
      bar_bar_prod == Dot(residual_bar, residual_bar)
      denominator == t_t_prod + bar_bar_prod - 2 * t_bar_prod
      alpha_opt == IF denominator > 0
                   THEN ((bar_bar_prod - t_bar_prod) * FUnit) \div denominator
                   ELSE alpha_max_
  IN  IF alpha_opt < alpha_max_ \div 10 THEN alpha_max_ \div 10
      ELSE IF alpha_opt > alpha_max_ THEN alpha_max_
      ELSE alpha_opt

\* update_alpha_max: stalled is
\* num.isLT( z_bar, z_bar_old + 0.01 * abs( z_bar_old ) )
update_alpha_max(stalled, alpha_max_) ==
  IF stalled /\ alpha_max_ \div 2 >= Scaled(1, 10000)
  THEN alpha_max_ \div 2 ELSE alpha_max_

Abs(a) == IF a >= 0 THEN a ELSE -a

\* every z_t counts as an improvement
isGT_Always(a, b) == TRUE

\* num.isGT on grid values
isGT(a, b) == a > b

\* the iteration limit is never reached
iter_limit_term_Never(num_iterations) == FALSE

\* stopping_criteria: num_iterations >= parameter.max_iterations
iter_limit_term(num_iterations) == num_iterations >= parameter.max_iterations

\* stopping_criteria: the number of columns counted longer than
\* num_iters_fixed_int_vars_check is at least
\* num_int_vars * fixed_int_var_threshold
fixed_int_var_term(fixed_int_vars_count_, num_int_vars_) ==
  LET fixed == {j \in DOMAIN fixed_int_vars_count_ :
                  fixed_int_vars_count_[j] > parameter.num_iters_fixed_int_vars_check}
  IN  Cardinality(fixed) * parameter.fixed_int_var_threshold[2]
        >= num_int_vars_ * parameter.fixed_int_var_threshold[1]

\* update_upper_bound: z_bar_ in grid units, the other values in hundredths
update_upper_bound(z_bar_, upper_bound_reset_val, upper_bound_, finite_upper_bound_) ==
  LET raised == max(upper_bound_ + (3 * Abs(upper_bound_)) \div 100,
                    100 * z_bar_ + 6 * Abs(z_bar_))
  IN  IF finite_upper_bound_
      THEN IF 100 * 100 * z_bar_ >= 100 * upper_bound_ - 5 * Abs(upper_bound_)
           THEN [upper_bound |-> IF z_bar_ = 0 THEN upper_bound_reset_val
                                 ELSE raised,
                 finite_upper_bound |-> TRUE]
           ELSE [upper_bound |-> upper_bound_, finite_upper_bound |-> TRUE]
      ELSE [upper_bound |-> IF z_bar_ = 0 THEN upper_bound_reset_val
                            ELSE 100 * z_bar_ + 6 * Abs(z_bar_),
            finite_upper_bound |-> TRUE]

\* the constructor has run and volume_algorithm is called with pi
Constructed ==
  /\ pi_t = <<>> /\ pi_bar = <<>> /\ solved_with = <<>>
  /\ x_t = <<>> /\ z_bar = 0 /\ improvement_indicator = FALSE
  /\ counter = 0 /\ f = parameter.f /\ weak_improvement_iter_counter = 0
  /\ non_improvement_iter_counter = 0 /\ change_f = 0
  /\ alpha = parameter.alpha /\ alpha_max = parameter.alpha_max
  /\ z_bar_old = 0 /\ v_pc = "start"
  /\ upper_bound = 0 /\ finite_upper_bound = FALSE
  /\ fixed_int_vars_count = <<>>

\* Step 0 up to the loop
Start ==
  /\ v_pc = "start"
  /\ counter' = 1
  /\ improvement_indicator' = FALSE
  /\ weak_improvement_iter_counter' = 0
  /\ non_improvement_iter_counter' = 0
  /\ pi_t' = update_pi(volume_problem, pi)
  /\ pi_bar' = pi
  /\ \E r \in {create_problem_6_and_solve_it(volume_problem, pi,
                                             volume_problem.c)} :
       /\ z_bar' = r.z
       /\ z_bar_old' = r.z
       /\ x_t' = r.x
       /\ fixed_int_vars_count' =
             [j \in VCols |-> IF volume_problem.kIntegral[j] /\ isIntegral(U(r.x[j]))
                              THEN 1 ELSE 0]
  /\ solved_with' = pi
  /\ v_pc' = "loop"
  /\ UNCHANGED <<pi, f, change_f, alpha, alpha_max, box_upper_bound,
                 num_int_vars, upper_bound, finite_upper_bound, fpVars, hVars,
                 mVars>>

\* one round of the loop
Iterate ==
  /\ v_pc = "loop"
  /\ ~iter_limit_term(counter - 1)
  /\ ~fixed_int_var_term(fixed_int_vars_count, num_int_vars)
  /\ \E u \in {update_upper_bound(z_bar,
                   100 * (IF box_upper_bound >= U(1) THEN U(1)
                          ELSE box_upper_bound),
                   upper_bound, finite_upper_bound)} :
       /\ upper_bound' = u.upper_bound
       /\ finite_upper_bound' = u.finite_upper_bound
  /\ \E unchanged \in [{j \in VCols : volume_problem.kIntegral[j]} -> BOOLEAN] :
       fixed_int_vars_count' =
         [j \in VCols |-> IF volume_problem.kIntegral[j] /\ unchanged[j]
                          THEN fixed_int_vars_count[j] + 1 ELSE 0]
  /\ \E step \in StepVectors, d_nonneg \in BOOLEAN :
     \E p \in {update_pi(volume_problem, [i \in VRows |-> pi_bar[i] + step[i]])} :
     \E r \in {create_problem_6_and_solve_it(volume_problem, p, x_t)} :
     \E u \in {update_f(isGT(r.z, z_bar), d_nonneg, f,
                        weak_improvement_iter_counter,
                        non_improvement_iter_counter)} :
       /\ pi_t' = p
       /\ solved_with' = p
       /\ x_t' = r.x
       /\ improvement_indicator' = isGT(r.z, z_bar)
       /\ z_bar' = IF isGT(r.z, z_bar) THEN r.z ELSE z_bar
       /\ pi_bar' = IF isGT(r.z, z_bar) THEN p ELSE pi_bar
       /\ f' = u.f
       /\ weak_improvement_iter_counter' = u.weak
       /\ non_improvement_iter_counter' = u.non
       /\ change_f' = u.change_f
       /\ alpha' = calc_alpha(calc_b_minus_Ax(volume_problem, r.x), step,
                              alpha_max)
       /\ IF counter % 100 = 0
          THEN /\ alpha_max' = update_alpha_max(
                    100 * z_bar' < 100 * z_bar_old + Abs(z_bar_old), alpha_max)
               /\ z_bar_old' = z_bar'
          ELSE UNCHANGED <<alpha_max, z_bar_old>>
  /\ counter' = counter + 1
  /\ UNCHANGED <<pi, v_pc, box_upper_bound, num_int_vars, fpVars, hVars, mVars>>

\* stopping_criteria ends the loop and x_bar is returned: the iteration limit
\* is reached, or the time limit or another criterion holds
Stop ==
  /\ v_pc = "loop"
  /\ v_pc' = "returned"
  /\ UNCHANGED <<pi, pi_t, pi_bar, solved_with, x_t, z_bar,
                 improvement_indicator, counter, f,
                 weak_improvement_iter_counter, non_improvement_iter_counter,
                 change_f, alpha, alpha_max, z_bar_old, box_upper_bound,
                 num_int_vars, upper_bound, finite_upper_bound,
                 fixed_int_vars_count, fpVars, hVars, mVars>>

InitVol ==
  /\ problem_id = 1
  /\ FapUnused
  /\ HeuristicUnused
  /\ mode = 0
  /\ MainUnused
  /\ pi \in InitialPi
  /\ box_upper_bound = U(3) /\ num_int_vars = 1
  /\ Constructed

NextVol ==
  \/ Start
  \/ Iterate
  \/ Stop

SpecVol == InitVol /\ [][NextVol]_vars

\* C9: every multiplier vector handed to the subproblem, and pi_bar, is
\* non-negative on every >=-row, whatever the initial pi
C9_DualSign ==
  v_pc \in {"loop", "returned"} =>
     \A i \in VRows :
        VolumeProblem.kRhsInf[i] => solved_with[i] >= 0 /\ pi_bar[i] >= 0

(***************************************************************************)
(* The step factor over any sequence of green, yellow and red rounds       *)
(***************************************************************************)
\* a round of the loop as far as f goes: update_f with the
\* improvement_indicator and the sign of v_t . residual_t of the round
RoundUpdatesF ==
  /\ v_pc = "loop"
  /\ \E improvement \in BOOLEAN, d_nonneg \in BOOLEAN :
     \E u \in {update_f(improvement, d_nonneg, f,
                        weak_improvement_iter_counter,
                        non_improvement_iter_counter)} :
       /\ improvement_indicator' = improvement
       /\ f' = u.f
       /\ weak_improvement_iter_counter' = u.weak
       /\ non_improvement_iter_counter' = u.non
       /\ change_f' = u.change_f
  /\ UNCHANGED <<pi, pi_t, pi_bar, solved_with, x_t, z_bar, counter, v_pc,
                 alpha, alpha_max, z_bar_old, box_upper_bound, num_int_vars,
                 upper_bound, finite_upper_bound, fixed_int_vars_count,
                 fpVars, hVars, mVars>>

InitVolF ==
  /\ problem_id = 1
  /\ FapUnused
  /\ HeuristicUnused
  /\ mode = 0
  /\ MainUnused
  /\ pi = [i \in VRows |-> U(0)]
  /\ box_upper_bound = U(3) /\ num_int_vars = 1
  /\ Constructed

NextVolF ==
  \/ Start
  \/ RoundUpdatesF

SpecVolF == InitVolF /\ [][NextVolF]_vars

\* C10: from the constructor on, after any sequence of green, yellow and red
\* rounds, f_min <= f <= f_max
C10_StepFactorBounds ==
  v_pc # "none" => parameter.f_min <= f /\ f <= parameter.f_max

\* a red round asked for a decrease that would leave f below f_min
C10_Witness ==
  /\ v_pc = "loop"
  /\ change_f = -1
  /\ Times(parameter.f_decr_factor, f) < parameter.f_min
  /\ parameter.f_min <= f /\ f < parameter.f

(***************************************************************************)
(* The smoothing weight over the rounds of the loop                        *)
(***************************************************************************)
\* the number of rounds followed for alpha
AlphaRounds == 200

\* a round of the loop as far as alpha and alpha_max go: calc_alpha with the
\* residuals of the round, and update_alpha_max in every hundredth round
RoundUpdatesAlpha ==
  /\ v_pc = "loop"
  /\ counter <= AlphaRounds
  /\ \E residual_t \in StepVectors, residual_bar \in StepVectors :
       alpha' = calc_alpha(residual_t, residual_bar, alpha_max)
  /\ IF counter % 100 = 0
     THEN \E stalled \in BOOLEAN :
            alpha_max' = update_alpha_max(stalled, alpha_max)
     ELSE UNCHANGED alpha_max
  /\ counter' = counter + 1
  /\ UNCHANGED <<pi, pi_t, pi_bar, solved_with, x_t, z_bar, z_bar_old,
                 improvement_indicator, f, weak_improvement_iter_counter,
                 non_improvement_iter_counter, change_f, v_pc,
                 box_upper_bound, num_int_vars, upper_bound,
                 finite_upper_bound, fixed_int_vars_count, fpVars, hVars,
                 mVars>>

NextVolA ==
  \/ Start
  \/ RoundUpdatesAlpha

SpecVolA == InitVolF /\ [][NextVolA]_vars

\* C11: from the constructor on 0 < alpha <= alpha_max, and after a round
\* that only ran calc_alpha alpha is in [alpha_max/10, alpha_max]
C11_AlphaRange ==
  /\ v_pc # "none" => 0 < alpha /\ alpha <= alpha_max
  /\ (v_pc = "loop" /\ counter > 1 /\ (counter - 1) % 100 # 0) =>
        alpha_max \div 10 <= alpha /\ alpha <= alpha_max

\* C12: in a round of the loop z_bar does not decrease, and z_bar or pi_bar
\* change only if the value z_t of the round's subproblem is above z_bar,
\* and then z_bar becomes z_t and pi_bar becomes pi_t
C12_ZBarMonotone ==
  [][v_pc = "loop" =>
       /\ z_bar' >= z_bar
       /\ (z_bar' # z_bar \/ pi_bar' # pi_bar) =>
            /\ create_problem_6_and_solve_it(VolumeProblem, pi_t', x_t).z > z_bar
            /\ z_bar' = create_problem_6_and_solve_it(VolumeProblem, pi_t', x_t).z
            /\ pi_bar' = pi_t']_vars

C12_Witness ==
  /\ v_pc = "loop" /\ counter > 1
  /\ improvement_indicator
  /\ pi_bar = pi_t /\ pi_bar # pi
  /\ z_bar = create_problem_6_and_solve_it(VolumeProblem, pi_t, x_t).z
  /\ z_bar > create_problem_6_and_solve_it(VolumeProblem, pi, x_t).z

(***************************************************************************)
(* Termination of volume_algorithm: every round of the loop completes      *)
(***************************************************************************)
SpecVolLive == InitVol /\ [][NextVol]_vars /\ WF_vars(NextVol)

\* C13: the loop runs at most max_iterations rounds and volume_algorithm
\* returns
C13_Terminates ==
  /\ [](v_pc # "none" => counter - 1 <= parameter.max_iterations)
  /\ <>(v_pc = "returned")

\* the loop is left because the iteration limit is reached
C13_Witness ==
  /\ v_pc = "returned"
  /\ counter - 1 = parameter.max_iterations

(***************************************************************************)
(* fix_and_propagate: the backtrack step                                   *)
(***************************************************************************)
\* C18: when a dive step has made the view infeasible and
\* stop_at_infeasibility is true, the next step of fix_and_propagate is the
\* return of true with the view left as it is (no reset, no backtrack), for
\* both values of perform_backtracking
C18_StopAtOnce ==
  [][(/\ fp_pc \in {"after_nb", "after_dive"}
      /\ probing_view.infeasible
      /\ stop_at_infeasibility) =>
       /\ fp_pc' = "done"
       /\ fp_ret' = TRUE
       /\ probing_view' = probing_view]_vars

\* C19: after one backtrack step on a trail of k >= 1 decisions the trail has
\* length k again, its first k-1 entries are the earlier decisions in the
\* same order, and its last entry is (c*, v*-1) if v* >= x_bar[c*] and
\* (c*, v*+1) otherwise, (c*, v*) being the last decision before the step
C19_BacktrackTrail ==
  [][(fp_pc = "after_dive" /\ probing_view.infeasible) =>
       LET before == probing_view.fixings
           after == probing_view'.fixings
           k == Len(before)
           last_fix == before[k]
       IN  /\ k >= 1
           /\ Len(after) = k
           /\ \A i \in 1..(k - 1) : after[i] = before[i]
           /\ after[k].col = last_fix.col
           /\ after[k].value =
                IF last_fix.value >= cont_solution[last_fix.col]
                THEN last_fix.value - U(1) ELSE last_fix.value + U(1)]_vars

\* a backtrack on a trail of at least two decisions has succeeded and the
\* dive goes on from the flipped decision
C19_Witness ==
  /\ fp_pc = "dive"
  /\ successful_backtracks >= 1
  /\ Len(probing_view.fixings) >= 2
  /\ ~probing_view.infeasible

\* C20: in every backtrack the assertions of modify_value_due_to_backtrack
\* hold: the flipped value of the last decision (c*, v*) is
\* feasFloor(x_bar[c*]) when v* >= x_bar[c*] and feasCeil(x_bar[c*]) otherwise
C20_FlipAssertions ==
  (fp_pc = "after_dive" /\ probing_view.infeasible) =>
     LET last_fix == probing_view.fixings[Len(probing_view.fixings)]
         solution_value == cont_solution[last_fix.col]
     IN  IF last_fix.value >= solution_value
         THEN feasFloor(solution_value) = last_fix.value - U(1)
         ELSE feasCeil(solution_value) = last_fix.value + U(1)

(***************************************************************************)
(* StartMipComp: main and modify_problem.  A problem of main has columns   *)
(* with an objective coefficient obj and the flags kLbInf, kUbInf, and     *)
(* rows as above.  parseOptions, MpsParser and Presolve are called for     *)
(* their outcome only.                                                     *)
(***************************************************************************)
\* the largest number of rows of an instance
MaxRows == 2

Coefs == {<<1, 0>>, <<1, 1>>}
InstanceCols == DOMAIN (CHOOSE a \in Coefs : TRUE)

\* a >=-row, a <=-row, an equation and a row with two different finite sides
InputRows ==
  UNION {{GeRow(a, 1), LeRow(a, 1), EqRow(a, 1),
          Row(a, FALSE, U(0), FALSE, U(1), FALSE)} : a \in Coefs}

\* bounded with obj > 0; obj < 0 without lower bound; free with obj = 0;
\* obj > 0 without upper bound
ColumnKinds ==
  {[obj |-> 1, lbInf |-> FALSE, ubInf |-> FALSE, lb |-> U(0), ub |-> U(2)],
   [obj |-> -1, lbInf |-> TRUE, ubInf |-> FALSE, lb |-> U(0), ub |-> U(1)],
   [obj |-> 0, lbInf |-> TRUE, ubInf |-> TRUE, lb |-> U(0), ub |-> U(0)],
   [obj |-> 1, lbInf |-> FALSE, ubInf |-> TRUE, lb |-> U(0), ub |-> U(0)]}

Instances ==
  {[loaded |-> TRUE,
    obj |-> [j \in InstanceCols |-> cols[j].obj],
    lbInf |-> [j \in InstanceCols |-> cols[j].lbInf],
    ubInf |-> [j \in InstanceCols |-> cols[j].ubInf],
    lb |-> [j \in InstanceCols |-> cols[j].lb],
    ub |-> [j \in InstanceCols |-> cols[j].ub],
    rows |-> rows] :
     cols \in [InstanceCols -> ColumnKinds],
     rows \in UNION {[1..n -> InputRows] : n \in 1..MaxRows}}

\* RowFlag::kEquation: both sides are finite and equal
kEquation(row) == ~row.lhsInf /\ ~row.rhsInf /\ row.lhs = row.rhs

invert(pDouble) == [j \in DOMAIN pDouble |-> pDouble[j] * (-1)]

\* the counting pass: nrows after the rows i..NRows
RECURSIVE CountRows(_, _)
CountRows(rows, i) ==
  IF i > Len(rows) THEN 0
  ELSE LET flags == rows[i]
       IN  (IF kEquation(flags) \/ flags.lhsInf \/ flags.rhsInf THEN 1 ELSE 2)
             + CountRows(rows, i + 1)

\* the rows the emit loop sets for input row i; the coefficients are read
\* with getRowCoefficients( 0 )
RowsOf(rows, i) ==
  LET rowvals == rows[1].a
      flags == rows[i]
      lhs == rows[i].lhs
      rhs == rows[i].rhs
  IN  IF kEquation(flags) \/ flags.lhsInf
      THEN << Row(rowvals, FALSE, lhs, FALSE, rhs, FALSE) >>
      ELSE IF ~flags.rhsInf
      THEN << Row(invert(rowvals), FALSE, -rhs, TRUE, 0, FALSE) >>
      ELSE IF ~flags.lhsInf
      THEN << Row(rowvals, FALSE, lhs, TRUE, 0, FALSE) >>
      ELSE << Row(invert(rowvals), FALSE, -rhs, TRUE, 0, FALSE),
              Row(rowvals, FALSE, lhs, TRUE, 0, FALSE) >>

RECURSIVE EmitRows(_, _)
EmitRows(rows, i) ==
  IF i > Len(rows) THEN <<>>
  ELSE RowsOf(rows, i) \o EmitRows(rows, i + 1)

\* nrows: the size given to setNumRows; rows: the rows 0..counter-1 the
\* emit loop has set
modify_problem(P) ==
  [nrows |-> CountRows(P.rows, 1), rows |-> EmitRows(P.rows, 1)]

\* lines 113-138: a column whose objective bound cannot be calculated
ObjectiveUnbounded(P) ==
  \E i \in DOMAIN P.obj :
     \/ P.obj[i] < 0 /\ P.lbInf[i]
     \/ P.obj[i] > 0 /\ P.ubInf[i]

Return(code) ==
  /\ exit_code' = code
  /\ m_pc' = "returned"

\* lines 46-59
ParseOptions ==
  /\ m_pc = "options"
  /\ IF argv = "error" THEN Return(1)
     ELSE IF argv = "incomplete" THEN Return(0)
     ELSE m_pc' = "load" /\ UNCHANGED exit_code
  /\ UNCHANGED <<mode, argv, instance_file, prob, reformulated, min_value>>

\* lines 61-78
LoadProblem ==
  /\ m_pc = "load"
  /\ prob' = instance_file
  /\ IF ~instance_file.loaded THEN Return(0)
     ELSE m_pc' = "presolve" /\ UNCHANGED exit_code
  /\ UNCHANGED <<mode, argv, instance_file, reformulated, min_value>>

\* lines 82-96
ApplyPresolve ==
  /\ m_pc = "presolve"
  /\ \E status \in {"kUnchanged", "kReduced", "kInfeasible", "kUnbounded",
                    "kUnbndOrInfeas"} :
       IF status \in {"kUnbounded", "kUnbndOrInfeas", "kInfeasible"}
       THEN Return(0)
       ELSE m_pc' = "reformulate" /\ UNCHANGED exit_code
  /\ UNCHANGED <<mode, argv, instance_file, prob, reformulated, min_value>>

\* line 103
Reformulate ==
  /\ m_pc = "reformulate"
  /\ reformulated' = modify_problem(prob)
  /\ m_pc' = "bound"
  /\ UNCHANGED <<mode, argv, instance_file, prob, min_value, exit_code>>

\* lines 105-138: min_value.add( coefficients[i] + bound ) for every column
\* with non-zero objective before the first one without the bound
ObjectiveBound ==
  /\ m_pc = "bound"
  /\ IF ObjectiveUnbounded(prob) THEN Return(1)
     ELSE m_pc' = "volume" /\ UNCHANGED exit_code
  /\ LET coefficients == prob.obj
         unbounded == {i \in DOMAIN coefficients :
                         \/ coefficients[i] < 0 /\ prob.lbInf[i]
                         \/ coefficients[i] > 0 /\ prob.ubInf[i]}
         added == {i \in DOMAIN coefficients :
                     coefficients[i] # 0 /\ \A k \in unbounded : i < k}
     IN  min_value' =
           SumSeq([i \in DOMAIN coefficients |->
                     IF i \notin added THEN 0
                     ELSE IF coefficients[i] < 0
                     THEN U(coefficients[i]) + prob.lb[i]
                     ELSE U(coefficients[i]) + prob.ub[i]])
  /\ UNCHANGED <<mode, argv, instance_file, prob, reformulated>>

\* lines 143-153
RunVolumeAlgorithm ==
  /\ m_pc = "volume"
  /\ Return(0)
  /\ UNCHANGED <<mode, argv, instance_file, prob, reformulated, min_value>>

InitMain ==
  /\ mode = 0
  /\ prob = NoProblem
  /\ reformulated = NoRows
  /\ min_value = 0
  /\ m_pc = "options"
  /\ exit_code = "none"
  /\ problem_id = 1
  /\ FapUnused
  /\ HeuristicUnused
  /\ VolumeUnused
  /\ argv \in {"error", "incomplete", "complete"}
  /\ instance_file \in Instances \cup {NoProblem}

NextMain ==
  \/ ParseOptions /\ UNCHANGED <<fpVars, hVars, vVars>>
  \/ LoadProblem /\ UNCHANGED <<fpVars, hVars, vVars>>
  \/ ApplyPresolve /\ UNCHANGED <<fpVars, hVars, vVars>>
  \/ Reformulate /\ UNCHANGED <<fpVars, hVars, vVars>>
  \/ ObjectiveBound /\ UNCHANGED <<fpVars, hVars, vVars>>
  \/ RunVolumeAlgorithm /\ UNCHANGED <<fpVars, hVars, vVars>>

SpecMain == InitMain /\ [][NextMain]_vars

\* C14: modify_problem expands every input row with two finite sides that is
\* not an equation into exactly the two rows a.x >= lhs and -a.x >= -rhs and
\* every other row into exactly one row: the number of rows set equals the
\* row count of the counting pass, and a vector satisfies an input row iff
\* it satisfies the rows set for it
C14_RowExpansion ==
  reformulated # NoRows =>
    LET P == prob.rows
        Q == reformulated.rows
        IsGe(row, a, lhs) ==
          row.a = a /\ ~row.lhsInf /\ row.lhs = lhs /\ row.rhsInf
        two(i) == ~P[i].lhsInf /\ ~P[i].rhsInf /\ ~kEquation(P[i])
        width(i) == IF two(i) THEN 2 ELSE 1
        start(i) == 1 + SumSeq([j \in 1..(i - 1) |-> width(j)])
    IN  /\ Len(Q) = reformulated.nrows
        /\ Len(Q) = SumSeq([j \in 1..Len(P) |-> width(j)])
        /\ \A i \in 1..Len(P) :
             /\ two(i) =>
                  \E k, l \in {start(i), start(i) + 1} :
                     /\ k # l
                     /\ IsGe(Q[k], P[i].a, P[i].lhs)
                     /\ IsGe(Q[l], invert(P[i].a), -P[i].rhs)
             /\ \A x \in [InstanceCols -> U(-1)..U(2)] :
                  RowSatisfied(P[i], x) <=>
                    \A k \in start(i)..(start(i) + width(i) - 1) :
                       RowSatisfied(Q[k], x)

\* C15: every row of the problem modify_problem returns is an equation
\* (finite lhs = rhs) or a >=-row (finite lhs, kRhsInf), built from the
\* coefficients of its own source row: an input <=-row a.x <= rhs is set as
\* -a.x >= -rhs and an input >=-row is set unchanged
C15_RowForms ==
  reformulated # NoRows =>
    LET P == prob.rows
        Q == reformulated.rows
        IsGe(row, a, lhs) ==
          row.a = a /\ ~row.lhsInf /\ row.lhs = lhs /\ row.rhsInf
    IN  /\ \A k \in 1..Len(Q) :
             ~Q[k].lhsInf /\ (Q[k].rhsInf \/ Q[k].lhs = Q[k].rhs)
        /\ \A i \in 1..Len(P) :
             /\ (P[i].lhsInf /\ ~P[i].rhsInf) =>
                  \E k \in 1..Len(Q) : IsGe(Q[k], invert(P[i].a), -P[i].rhs)
             /\ (~P[i].lhsInf /\ P[i].rhsInf) =>
                  \E k \in 1..Len(Q) : IsGe(Q[k], P[i].a, P[i].lhs)

\* C17: main returns 1 whenever setup fails, that is when option parsing
\* fails or the instance file cannot be loaded, and 0 only otherwise
C17_ExitCode ==
  (/\ m_pc = "returned"
   /\ \/ argv = "error"
      \/ argv = "complete" /\ ~instance_file.loaded) => exit_code = 1

(***************************************************************************)
(* FixAndPropagate::find_initial_solution.  The columns of the pool have   *)
(* finite bounds: ColFlag::kLbInf and kUbInf are clear.                    *)
(***************************************************************************)
\* the value the switch leaves in `value`; case 0 has no break and runs on
\* into case 1, which assigns value on each of its paths
InitialValue(mode_, lbInf, lower_bound_, ubInf, upper_bound_) ==
  LET case_0 == IF ~ubInf /\ upper_bound_ < 0 THEN upper_bound_
                ELSE IF ~lbInf /\ lower_bound_ > 0 THEN lower_bound_
                ELSE 0
      case_1(value) == IF ~lbInf THEN lower_bound_
                       ELSE IF ~ubInf THEN upper_bound_
                       ELSE 0
      case_2 == IF ~ubInf THEN upper_bound_
                ELSE IF ~lbInf THEN lower_bound_
                ELSE 0
  IN  CASE mode_ = 0 -> case_1(case_0)
        [] mode_ = 1 -> case_1(0)
        [] mode_ = 2 -> case_2

\* line 151
InitialReset ==
  /\ fp_pc = "initial_enter"
  /\ probing_view' = reset(problem)
  /\ fp_pc' = "initial_loop"
  /\ UNCHANGED <<problem_id, cont_solution, perform_backtracking,
                 stop_at_infeasibility, result, successful_backtracks, fp_ret,
                 mode>>

\* lines 152-218: the loop runs on from the column after the last fixing to
\* the next column with ub # lb and fixes it; with none left, lines 218-219
InitialStep ==
  /\ fp_pc = "initial_loop"
  /\ LET fixings == probing_view.fixings
         from == IF fixings = <<>> THEN 1 ELSE fixings[Len(fixings)].col + 1
         open == {j \in from..NCols(problem) :
                    probing_view.ub[j] # probing_view.lb[j]}
     IN  IF open = {}
         THEN /\ result' = create_solution(probing_view)
              /\ fp_ret' = FALSE
              /\ fp_pc' = "done"
              /\ UNCHANGED probing_view
         ELSE IF mode = 3
         THEN /\ fp_ret' = FALSE
              /\ fp_pc' = "done"
              /\ UNCHANGED <<probing_view, result>>
         ELSE LET i == CHOOSE j \in open : \A l \in open : j <= l
                  value == InitialValue(mode, FALSE, probing_view.lb[i],
                                        FALSE, probing_view.ub[i])
                  w == perform_probing_step(problem,
                         setProbingColumn(probing_view, i, value))
              IN  /\ probing_view' = w
                  /\ IF w.infeasible
                     THEN fp_ret' = TRUE /\ fp_pc' = "done"
                     ELSE UNCHANGED <<fp_ret, fp_pc>>
                  /\ UNCHANGED result
  /\ UNCHANGED <<problem_id, cont_solution, perform_backtracking,
                 stop_at_infeasibility, successful_backtracks, mode>>

\* the caller's view: fresh, or left behind by an earlier fixing
InitInitial ==
  /\ cont_solution = <<>>
  /\ perform_backtracking = FALSE
  /\ stop_at_infeasibility = FALSE
  /\ successful_backtracks = 0
  /\ fp_pc = "initial_enter"
  /\ fp_ret = "none"
  /\ HeuristicUnused
  /\ VolumeUnused
  /\ MainUnused
  /\ mode \in 0..3
  /\ problem_id \in DOMAIN ProblemPool
  /\ result = [j \in Cols(problem) |-> 0]
  /\ \E j \in Cols(problem) :
       probing_view \in
         {reset(problem),
          perform_probing_step(problem,
            setProbingColumn(reset(problem), j, problem.ub[j]))}

NextInitial ==
  \/ InitialReset /\ UNCHANGED <<hVars, vVars, argv, instance_file, prob,
                                 reformulated, min_value, m_pc, exit_code>>
  \/ InitialStep /\ UNCHANGED <<hVars, vVars, argv, instance_file, prob,
                                reformulated, min_value, m_pc, exit_code>>

SpecInitial == InitInitial /\ [][NextInitial]_vars

\* C16: find_initial_solution fixes a not-yet-fixed column in mode 0 to 0
\* when 0 lies within its bounds and otherwise to the bound nearest to 0, in
\* mode 1 to its lower bound and in mode 2 to its upper bound; mode 0 never
\* assigns the lower bound of a column whose bounds contain 0 and whose
\* lower bound is not 0
C16_InitialModes ==
  [][(/\ fp_pc = "initial_loop"
      /\ mode \in 0..2
      /\ Len(probing_view'.fixings) = Len(probing_view.fixings) + 1) =>
       LET fixing == probing_view'.fixings[Len(probing_view'.fixings)]
           lb == probing_view.lb[fixing.col]
           ub == probing_view.ub[fixing.col]
       IN  /\ lb # ub
           /\ fixing.value =
                CASE mode = 0 -> IF lb <= 0 /\ 0 <= ub THEN 0
                                 ELSE IF ub < 0 THEN ub ELSE lb
                  [] mode = 1 -> lb
                  [] mode = 2 -> ub]_vars

(***************************************************************************)
(* update_f: the decrease of f and the two counters                        *)
(***************************************************************************)
\* C23: when the no-improvement counter reaches non_improvement_iter_limit
\* in update_f, the counter is reset to 0 and f becomes
\* max(f_decr_factor * f, f_min)
C23_DecreaseToFMin ==
  [][(/\ v_pc = "loop"
      /\ ~improvement_indicator'
      /\ non_improvement_iter_counter + 1 >=
            parameter.non_improvement_iter_limit) =>
       /\ non_improvement_iter_counter' = 0
       /\ f' = max(Times(parameter.f_decr_factor, f), parameter.f_min)]_vars

\* C24: the two counters are run-length counters: after an improving round
\* non_improvement_iter_counter is 0, and after a round that is not yellow
\* (a green or a red one) weak_improvement_iter_counter is 0
C24_RunLengthCounters ==
  v_pc = "loop" =>
     /\ improvement_indicator => non_improvement_iter_counter = 0
     /\ ~improvement_indicator => weak_improvement_iter_counter = 0
     /\ change_f = 2 => weak_improvement_iter_counter = 0

(***************************************************************************)
(* volume_algorithm on a problem with a column without lower bound         *)
(***************************************************************************)
InitVolD ==
  /\ problem_id = 2
  /\ FapUnused
  /\ HeuristicUnused
  /\ mode = 0
  /\ MainUnused
  /\ pi \in InitialPi
  /\ box_upper_bound = U(3) /\ num_int_vars = 1
  /\ Constructed

SpecVolD == InitVolD /\ [][NextVol]_vars

\* C25: a round whose subproblem meets a column with an infinite chosen
\* side is classified as no improvement and leaves z_bar and pi_bar
\* unchanged, whatever the sign of z_bar
C25_DegenerateRound ==
  [][(/\ v_pc = "loop"
      /\ counter' = counter + 1
      /\ LET updated_objective == calc_b_minus_xA(volume_problem, pi_t')
         IN  \E j \in VCols :
                \/ updated_objective[j] > 0 /\ volume_problem.kLbInf[j]
                \/ updated_objective[j] < 0 /\ volume_problem.kUbInf[j]) =>
       /\ ~improvement_indicator'
       /\ z_bar' = z_bar
       /\ pi_bar' = pi_bar]_vars

\* C21: a scan of perform_one_opt that goes on from one column to the next
\* within a slot goes to a column whose objective coefficient is not larger
\* in magnitude, i.e. the columns are visited by decreasing |c_j|
C21_DecreasingMagnitude ==
  [][h_pc = "par_one_opt" =>
       \A k \in DOMAIN tasks :
          (/\ tasks[k].pc = "scan"
           /\ tasks'[k].pc = "scan"
           /\ tasks'[k].i = tasks[k].i
           /\ tasks'[k].j # tasks[k].j) =>
             LET magnitude(j) == IF problem.obj[j] >= 0 THEN problem.obj[j]
                                 ELSE -problem.obj[j]
             IN  magnitude(tasks[k].j) >= magnitude(tasks'[k].j)]_vars

\* C22: the scan of a slot ends before the last column only at a column
\* whose objective coefficient is zero
C22_EarlyEndOnlyAtZero ==
  [][h_pc = "par_one_opt" =>
       \A k \in DOMAIN tasks :
          (/\ tasks[k].pc = "scan"
           /\ tasks[k].j < NCols(problem)
           /\ tasks'[k].i # tasks[k].i \/ tasks'[k].pc = "done") =>
             problem.obj[tasks[k].j] = 0]_vars

C27_BoundedBacktracks ==
  /\ [][/\ (/\ fp_pc = "dive" /\ fp_pc' = "after_dive"
            /\ probing_view'.infeasible) =>
              Len(probing_view'.fixings) = Len(probing_view.fixings) + 1
        /\ (fp_pc = "after_dive" /\ probing_view.infeasible) =>
              /\ Len(probing_view'.fixings) = Len(probing_view.fixings)
              /\ fp_pc' = "dive" =>
                    successful_backtracks' <= Len(probing_view'.fixings)]_vars
  /\ [](fp_pc # "none" =>
          LET integral == {j \in Cols(problem) : problem.integral[j]}
          IN  /\ Len(probing_view.fixings) <= Cardinality(integral)
              /\ perform_backtracking =>
                    successful_backtracks < Cardinality(integral))

\* a call that has backtracked twice with success and has returned
C27_Witness ==
  /\ fp_pc = "done" /\ perform_backtracking
  /\ successful_backtracks >= 2
  /\ Len(probing_view.fixings) > successful_backtracks

\* C26: the hint main passes to volume_algorithm is the maximum of c.x over
\* the box, the sum of c_j ub_j over the columns with c_j > 0 and of c_j lb_j
\* over the columns with c_j < 0, and volume_algorithm is not called when a
\* bound needed for it is infinite
C26_UpperBoundHint ==
  /\ m_pc = "volume" =>
       min_value = SumSeq([j \in DOMAIN prob.obj |->
                             IF prob.obj[j] > 0 THEN prob.obj[j] * prob.ub[j]
                             ELSE prob.obj[j] * prob.lb[j]])
  /\ (prob.loaded /\ ObjectiveUnbounded(prob)) => m_pc # "volume"

(***************************************************************************)
(* volume_algorithm for the hints and the integer counts a caller passes   *)
(***************************************************************************)
InitVolU ==
  /\ problem_id = 1
  /\ FapUnused
  /\ HeuristicUnused
  /\ mode = 0
  /\ MainUnused
  /\ pi \in InitialPi
  /\ box_upper_bound \in {U(-1), U(0), U(1), U(3)}
  /\ num_int_vars \in {0, 1}
  /\ Constructed

SpecVolU == InitVolU /\ [][NextVol]_vars

\* C28: in every round of the loop the target upper_bound that
\* update_upper_bound leaves is strictly above z_bar, whatever
\* box_upper_bound and z_bar are
C28_TargetAboveZBar ==
  [][(v_pc = "loop" /\ counter' = counter + 1) =>
       upper_bound' > 100 * z_bar]_vars

\* C30: when the fixed-integer criterion of stopping_criteria holds, some
\* integral column has been counted for more than
\* num_iters_fixed_int_vars_check rounds; with num_int_vars = 0 it does not
\* hold before the first round
C30_FixedIntegerCriterion ==
  (v_pc = "loop" /\ fixed_int_var_term(fixed_int_vars_count, num_int_vars)) =>
     \E j \in VCols :
        /\ volume_problem.kIntegral[j]
        /\ fixed_int_vars_count[j] > parameter.num_iters_fixed_int_vars_check

====
